---- MODULE Spec2Model ----
(***************************************************************************)
(* Model of src/memory.c: the bootstrap kernel heap (an intrusive          *)
(* doubly-linked list of MemoryBlock headers inside one arena, first-fit   *)
(* allocation with splitting, release with a coalescing pass) and the      *)
(* registry of memory pools built on it.                                   *)
(*                                                                         *)
(* The machine is the 32-bit flat-memory target the code is written for    *)
(* (pointers are cast to and from u32).  Its word is scaled down: u32      *)
(* values are the integers modulo Mod = 2^WordBits and one "MB" is MB      *)
(* bytes, so that 16 * MB < Mod as 16 MB < 2^32.  All arithmetic that the  *)
(* code does in u32 is done modulo Mod here.                               *)
(***************************************************************************)
EXTENDS Integers, Sequences, FiniteSets, TLC

(***************************************************************************)
(* Bounds of the model.                                                    *)
(***************************************************************************)
\* width of the machine word (u32 in the code)
WordBits == 11
\* the unit the code calls MB (kernel.h)
MB == 64
\* sizeof(MemoryPool) (memory.h)
SizeofMemoryPool == 8
\* capacity of the pool registry (memory.h)
MAX_MEMPOOLS == 2
\* width of MemoryPool.name, terminator included (memory.h)
NAME_LEN == 3
\* how many raw allocations the caller holds at a time
MaxLive == 2
\* how many blocks the list may hold when a caller asks for more memory
MaxBlocks == 5
\* how many calls are followed in a heap in which two headers overlap
MaxWild == 1

(***************************************************************************)
(* Machine arithmetic.                                                     *)
(***************************************************************************)
Mod == 2 ^ WordBits

\* a u32 result: the value modulo the word size
U32(x) == x % Mod

NULL == 0

\* sizeof(MemoryBlock): u32 size, bool free (padded), two 32-bit pointers
SizeofMemoryBlock == 16

\* memory_init's locals
heap_start == 1 * MB
heap_size == 4 * MB

(***************************************************************************)
(* State.  The C statics keep their names.  hdr is the heap memory seen as *)
(* MemoryBlock headers: hdr[a] is the header written at address a, and it  *)
(* stays there after the block has been merged away (a stale header).      *)
(* pool_obj is the heap memory seen as MemoryPool structures.  hung says   *)
(* that an operation entered a loop that never ends.  The other variables  *)
(* belong to the callers: the pointers held (live), the last call (last),  *)
(* the pool ids handed out (issued), the position in the end-to-end        *)
(* scenario (scn), the number of calls made in a heap whose headers        *)
(* overlap (wild), and where each execution context is inside memory_alloc *)
(* when calls are not serialized (ctx).                                    *)
(***************************************************************************)
\* what a call reads where memory holds no header, when nothing says
\* otherwise
Blank == [size |-> 0, free |-> FALSE, next |-> NULL, prev |-> NULL]

VARIABLES memory_total, memory_used, memory_free, memory_block_count,
          memory_list, memory_pools, memory_pool_count,
          hdr, pool_obj, hung,
          live, last, issued, scn, wild, ctx

heapvars == <<memory_total, memory_used, memory_free, memory_block_count,
              memory_list, memory_pools, memory_pool_count, hdr, pool_obj, hung>>
vars == <<heapvars, live, last, issued, scn, wild, ctx>>

\* the allocator's state as one value, so that operations compose
State ==
  [memory_total |-> memory_total, memory_used |-> memory_used,
   memory_free |-> memory_free, memory_block_count |-> memory_block_count,
   memory_list |-> memory_list, memory_pools |-> memory_pools,
   memory_pool_count |-> memory_pool_count,
   hdr |-> hdr, pool_obj |-> pool_obj, hung |-> hung, junk |-> Blank]

Install(st) ==
  /\ memory_total' = st.memory_total
  /\ memory_used' = st.memory_used
  /\ memory_free' = st.memory_free
  /\ memory_block_count' = st.memory_block_count
  /\ memory_list' = st.memory_list
  /\ memory_pools' = st.memory_pools
  /\ memory_pool_count' = st.memory_pool_count
  /\ hdr' = st.hdr
  /\ pool_obj' = st.pool_obj
  /\ hung' = st.hung

(***************************************************************************)
(* The block list: the headers reached from memory_list by next.           *)
(***************************************************************************)
RECURSIVE Walk(_, _, _)
\* the addresses on the chain from current, in order; stops at NULL, at an
\* address with no header, and when the chain comes back to a visited block
Walk(h, current, seen) ==
  IF current = NULL \/ current \notin DOMAIN h \/ current \in seen
  THEN <<>>
  ELSE <<current>> \o Walk(h, h[current].next, seen \cup {current})

Chain(st) == Walk(st.hdr, st.memory_list, {})

RECURSIVE WalkSet(_, _, _)
\* the same addresses as a set
WalkSet(h, current, seen) ==
  IF current = NULL \/ current \notin DOMAIN h \/ current \in seen
  THEN seen
  ELSE WalkSet(h, h[current].next, seen \cup {current})

ChainSet(st) == WalkSet(st.hdr, st.memory_list, {})

\* the block list proper: the headers on the chain
Blocks(st) == [a \in ChainSet(st) |-> st.hdr[a]]

(***************************************************************************)
(* memory_alloc: first fit, split.                                         *)
(***************************************************************************)
\* size = (size + 7) & ~7, in u32
AlignUp(size) == U32(size + 7) - (U32(size + 7) % 8)

\* A header is 16 bytes: size at +0, free at +4 (one byte, then padding),
\* next at +8, prev at +12.  Headers start at multiples of 8, so two headers
\* overlap only when they are 8 bytes apart, and then the upper half of the
\* lower one (next, prev) is the lower half of the upper one (size, free).
\*
\* Load: the header a read at address a finds.  Where memory holds no header
\* the words come from the header 8 bytes below or above, if there is one,
\* and are otherwise whatever the memory holds (junk).
Load(h, junk, a) ==
  IF a \in DOMAIN h THEN h[a]
  ELSE [size |-> IF U32(a - 8) \in DOMAIN h THEN h[U32(a - 8)].next
                 ELSE junk.size,
        free |-> IF U32(a - 8) \in DOMAIN h THEN h[U32(a - 8)].prev % 256 # 0
                 ELSE junk.free,
        next |-> IF U32(a + 8) \in DOMAIN h THEN h[U32(a + 8)].size
                 ELSE junk.next,
        prev |-> IF U32(a + 8) \in DOMAIN h
                 THEN (IF h[U32(a + 8)].free THEN 1 ELSE 0)
                 ELSE junk.prev]

\* the memory seen with a header at a as well
Held(h, junk, a) ==
  IF a \in DOMAIN h THEN h ELSE (a :> Load(h, junk, a)) @@ h

\* the word written to field f of the header at a is also a word of the
\* header 8 bytes below (for size, free) or above (for next, prev), if there
\* is one; the store of a bool writes one byte, the store of a pointer four
Mirror(h, a, f, v) ==
  CASE f = "size" /\ U32(a - 8) \in DOMAIN h ->
         [h EXCEPT ![a].size = v, ![U32(a - 8)].next = v]
    [] f = "free" /\ U32(a - 8) \in DOMAIN h ->
         [h EXCEPT ![a].free = v,
                   ![U32(a - 8)].prev = @ - (@ % 256) + (IF v THEN 1 ELSE 0)]
    [] f = "next" /\ U32(a + 8) \in DOMAIN h ->
         [h EXCEPT ![a].next = v, ![U32(a + 8)].size = v]
    [] f = "prev" /\ U32(a + 8) \in DOMAIN h ->
         [h EXCEPT ![a].prev = v, ![U32(a + 8)].free = (v % 256 # 0)]
    [] OTHER -> [h EXCEPT ![a][f] = v]

\* Store: the memory after `a->f = v`
Store(h, junk, a, f, v) == Mirror(Held(h, junk, a), a, f, v)

RECURSIVE FirstFit(_, _, _, _, _)
\* the `while (current)` scan: block is the first block on the chain that is
\* free and has size >= need, NULL when the chain ends before one is found;
\* hang says that the chain leads back to a block already passed (the list
\* does not change during the scan, so the loop then never ends)
FirstFit(h, junk, current, need, seen) ==
  IF current = NULL THEN [block |-> NULL, hang |-> FALSE]
  ELSE IF current \in seen THEN [block |-> NULL, hang |-> TRUE]
  ELSE IF /\ Load(h, junk, current).free
          /\ Load(h, junk, current).size >= need
  THEN [block |-> current, hang |-> FALSE]
  ELSE FirstFit(h, junk, Load(h, junk, current).next, need,
                seen \cup {current})

\* The statements of the split, each as the memory it leaves.
\* line 75: new_block->size = current->size - size - sizeof(MemoryBlock)
Line75(h, junk, current, new_block, size) ==
  Store(h, junk, new_block, "size",
        U32(Load(h, junk, current).size - size - SizeofMemoryBlock))

\* line 76: new_block->free = true
Line76(h, junk, new_block) == Store(h, junk, new_block, "free", TRUE)

\* line 77: new_block->next = current->next
Line77(h, junk, current, new_block) ==
  Store(h, junk, new_block, "next", Load(h, junk, current).next)

\* line 78: new_block->prev = current
Line78(h, junk, current, new_block) ==
  Store(h, junk, new_block, "prev", current)

\* lines 80-82: if (current->next) current->next->prev = new_block
Line80(h, junk, current, new_block) ==
  IF Load(h, junk, current).next # NULL
  THEN Store(h, junk, Load(h, junk, current).next, "prev", new_block)
  ELSE h

\* line 84: current->size = size
Line84(h, junk, current, size) == Store(h, junk, current, "size", size)

\* line 85: current->free = false
Line85(h, junk, current) == Store(h, junk, current, "free", FALSE)

\* line 86: current->next = new_block
Line86(h, junk, current, new_block) ==
  Store(h, junk, current, "next", new_block)

\* line 74: new_block = current + sizeof(MemoryBlock) + size
NewBlock(current, size) == U32(current + SizeofMemoryBlock + size)

\* lines 75-86 in order (when the address wraps, new_block may be current
\* itself or lie 8 bytes above it, inside its header)
SplitMemory(h, junk, current, new_block, size) ==
  Line86(
    Line85(
      Line84(
        Line80(
          Line78(
            Line77(
              Line76(
                Line75(h, junk, current, new_block, size),
                junk, new_block),
              junk, current, new_block),
            junk, current, new_block),
          junk, current, new_block),
        junk, current, size),
      junk, current),
    junk, current, new_block)

\* the body of the `if` in memory_alloc: the split of current and the
\* counters
Split(st, current, size) ==
  [st EXCEPT
     !.hdr = SplitMemory(@, st.junk, current, NewBlock(current, size), size),
     !.memory_used = U32(@ + U32(size + SizeofMemoryBlock)),
     !.memory_free = U32(@ - U32(size + SizeofMemoryBlock)),
     !.memory_block_count = U32(@ + 1)]

\* memory_alloc with the slip of not turning a request of 0 bytes away
memory_alloc_of_nothing(st, size) ==
  IF st.hung THEN [st |-> st, ret |-> NULL]
  ELSE LET sz == AlignUp(size)
           scan == FirstFit(st.hdr, st.junk, st.memory_list,
                            U32(sz + SizeofMemoryBlock), {})
       IN IF scan.hang
          THEN [st |-> [st EXCEPT !.hung = TRUE], ret |-> NULL]
          ELSE IF scan.block = NULL
          THEN [st |-> st, ret |-> NULL]
          ELSE [st |-> Split(st, scan.block, sz),
                ret |-> U32(scan.block + SizeofMemoryBlock)]

\* memory_alloc(size): the state after the call and the pointer returned
memory_alloc(st, size) ==
  IF st.hung \/ size = 0 THEN [st |-> st, ret |-> NULL]
  ELSE LET sz == AlignUp(size)
           scan == FirstFit(st.hdr, st.junk, st.memory_list,
                            U32(sz + SizeofMemoryBlock), {})
       IN IF scan.hang
          THEN [st |-> [st EXCEPT !.hung = TRUE], ret |-> NULL]
          ELSE IF scan.block = NULL
          THEN [st |-> st, ret |-> NULL]
          ELSE [st |-> Split(st, scan.block, sz),
                ret |-> U32(scan.block + SizeofMemoryBlock)]

(***************************************************************************)
(* memory_coalesce and memory_free.                                        *)
(***************************************************************************)
\* The statements of a merge, each as the memory it leaves.
\* line 127: current->size += current->next->size + sizeof(MemoryBlock)
Line127(h, junk, current) ==
  Store(h, junk, current, "size",
        U32(Load(h, junk, current).size
              + Load(h, junk, Load(h, junk, current).next).size
              + SizeofMemoryBlock))

\* line 128: current->next = current->next->next
Line128(h, junk, current) ==
  Store(h, junk, current, "next",
        Load(h, junk, Load(h, junk, current).next).next)

\* lines 130-132: if (current->next) current->next->prev = current
Line130(h, junk, current) ==
  IF Load(h, junk, current).next # NULL
  THEN Store(h, junk, Load(h, junk, current).next, "prev", current)
  ELSE h

\* where the slip below goes on after a merge: the block after the merged one
AfterMerge(h, junk, current) ==
  Load(Line128(Line127(h, junk, current), junk, current), junk, current).next

RECURSIVE CoalesceLoopAdvancing(_, _, _, _, _)
\* memory_coalesce with the slip of moving on to the next block after a merge
CoalesceLoopAdvancing(h, junk, count, current, steps) ==
  IF current = NULL \/ Load(h, junk, current).next = NULL
  THEN [hdr |-> h, count |-> count, hang |-> FALSE]
  ELSE IF steps = 0
  THEN [hdr |-> h, count |-> count, hang |-> TRUE]
  ELSE IF /\ Load(h, junk, current).free
          /\ Load(h, junk, Load(h, junk, current).next).free
  THEN CoalesceLoopAdvancing(Line130(Line128(Line127(h, junk, current), junk, current),
                      junk, current),
              junk, U32(count - 1), AfterMerge(h, junk, current), steps - 1)
  ELSE CoalesceLoopAdvancing(h, junk, count, Load(h, junk, current).next, steps - 1)

RECURSIVE CoalesceLoop(_, _, _, _, _)
\* the while loop of memory_coalesce from `current` on.  A pass over a chain
\* that ends takes at most one step per block to advance and one per block
\* to merge; a pass that has taken more steps than the bound memory_coalesce
\* gives it is on a chain that leads back into itself and never ends:
\* steps = 0 is that case.
CoalesceLoop(h, junk, count, current, steps) ==
  IF current = NULL \/ Load(h, junk, current).next = NULL
  THEN [hdr |-> h, count |-> count, hang |-> FALSE]
  ELSE IF steps = 0
  THEN [hdr |-> h, count |-> count, hang |-> TRUE]
  ELSE IF /\ Load(h, junk, current).free
          /\ Load(h, junk, Load(h, junk, current).next).free
  THEN CoalesceLoop(Line130(Line128(Line127(h, junk, current), junk, current),
                      junk, current),
              junk, U32(count - 1), current, steps - 1)
  ELSE CoalesceLoop(h, junk, count, Load(h, junk, current).next, steps - 1)

memory_coalesce(st) ==
  LET r == CoalesceLoop(st.hdr, st.junk, st.memory_block_count, st.memory_list,
                        4 * Cardinality(DOMAIN st.hdr) + 4)
  IN [st EXCEPT !.hdr = r.hdr,
                !.memory_block_count = r.count,
                !.hung = r.hang]

\* memory_free with the slip of not calling memory_coalesce
memory_free_uncoalesced(st, ptr) ==
  IF st.hung THEN [st |-> st, err |-> "HANG"]
  ELSE IF ptr = NULL THEN [st |-> st, err |-> "ERR_INVALID_ARG"]
  ELSE LET block == U32(ptr - SizeofMemoryBlock)
           b == Load(st.hdr, st.junk, block)
       IN IF b.free
          THEN [st |-> st, err |-> "ERR_GENERIC"]
          ELSE LET bytes == U32(b.size + SizeofMemoryBlock)
               IN [st |-> [st EXCEPT
                             !.hdr = Store(@, st.junk, block, "free", TRUE),
                             !.memory_used = U32(@ - bytes),
                             !.memory_free = U32(@ + bytes)],
                   err |-> "ERR_SUCCESS"]

\* memory_free(ptr): the state after the call and the error code returned
memory_free_ptr(st, ptr) ==
  IF st.hung THEN [st |-> st, err |-> "HANG"]
  ELSE IF ptr = NULL THEN [st |-> st, err |-> "ERR_INVALID_ARG"]
  ELSE LET block == U32(ptr - SizeofMemoryBlock)
           b == Load(st.hdr, st.junk, block)
       IN IF b.free
          THEN [st |-> st, err |-> "ERR_GENERIC"]
          ELSE LET bytes == U32(b.size + SizeofMemoryBlock)
                   st1 == [st EXCEPT
                             !.hdr = Store(@, st.junk, block, "free", TRUE),
                             !.memory_used = U32(@ - bytes),
                             !.memory_free = U32(@ + bytes)]
                   st2 == memory_coalesce(st1)
               IN [st |-> st2,
                   err |-> IF st2.hung THEN "HANG" ELSE "ERR_SUCCESS"]

(***************************************************************************)
(* The pool registry.                                                      *)
(***************************************************************************)
Slots == 0..(MAX_MEMPOOLS - 1)

\* mempool_get_block_size
mempool_get_block_size(type) ==
  CASE type = "MEM_POOL_SMALL" -> 64
    [] type = "MEM_POOL_MEDIUM" -> 256
    [] type = "MEM_POOL_LARGE" -> 1024
    [] type = "MEM_POOL_SPECIAL" -> 4096
    [] OTHER -> 128

\* strncpy(pool->name, name, sizeof(pool->name) - 1) into a zeroed field:
\* the first NAME_LEN - 1 characters of name
CopyName(name) ==
  SubSeq(name, 1, IF Len(name) < NAME_LEN - 1 THEN Len(name) ELSE NAME_LEN - 1)

\* the `for` loop of mempool_create: the first empty slot takes the pool; the
\* array is left alone when no slot is empty
AddToArray(pools, pool) ==
  LET empty == {i \in Slots : pools[i] = NULL}
  IN IF empty = {} THEN pools
     ELSE [pools EXCEPT ![CHOOSE i \in empty : \A j \in empty : i <= j] = pool]

\* the `for` loop of mempool_destroy: the first slot holding the pool is
\* emptied; the array is left alone when no slot holds it
RemoveFromArray(pools, pool) ==
  LET held == {i \in Slots : pools[i] = pool}
  IN IF held = {} THEN pools
     ELSE [pools EXCEPT ![CHOOSE i \in held : \A j \in held : i <= j] = NULL]

\* the id a new pool gets
NewPoolId(st) == U32(st.memory_pool_count + 1)

\* mempool_create with the slip of testing the limit with > instead of >=
mempool_create_past_limit(st, name, type, size) ==
  IF st.hung \/ st.memory_pool_count > MAX_MEMPOOLS
  THEN [st |-> st, ret |-> NULL]
  ELSE LET a1 == memory_alloc(st, SizeofMemoryPool)
           pool == a1.ret
           a2 == memory_alloc(a1.st, size)
           pool_memory == a2.ret
           obj == [id |-> NewPoolId(a2.st),
                   name |-> CopyName(name),
                   type |-> type,
                   base_address |-> pool_memory,
                   size |-> size,
                   block_size |-> mempool_get_block_size(type),
                   flags |-> 0,
                   used |-> 0, allocations |-> 0, frees |-> 0,
                   peak_usage |-> 0]
       IN IF a1.st.hung \/ pool = NULL
          THEN [st |-> a1.st, ret |-> NULL]
          ELSE IF a2.st.hung
          THEN [st |-> a2.st, ret |-> NULL]
          ELSE IF pool_memory = NULL
          THEN [st |-> memory_free_ptr(a1.st, pool).st, ret |-> NULL]
          ELSE [st |-> [a2.st EXCEPT
                          !.pool_obj = (pool :> obj) @@ @,
                          !.memory_pools = AddToArray(@, pool),
                          !.memory_pool_count = U32(@ + 1)],
                ret |-> pool]

\* mempool_create(name, type, size): the state after the call and the pool
\* returned
mempool_create(st, name, type, size) ==
  IF st.hung \/ st.memory_pool_count >= MAX_MEMPOOLS
  THEN [st |-> st, ret |-> NULL]
  ELSE LET a1 == memory_alloc(st, SizeofMemoryPool)
           pool == a1.ret
           a2 == memory_alloc(a1.st, size)
           pool_memory == a2.ret
           obj == [id |-> NewPoolId(a2.st),
                   name |-> CopyName(name),
                   type |-> type,
                   base_address |-> pool_memory,
                   size |-> size,
                   block_size |-> mempool_get_block_size(type),
                   flags |-> 0,
                   used |-> 0, allocations |-> 0, frees |-> 0,
                   peak_usage |-> 0]
       IN IF a1.st.hung \/ pool = NULL
          THEN [st |-> a1.st, ret |-> NULL]
          ELSE IF a2.st.hung
          THEN [st |-> a2.st, ret |-> NULL]
          ELSE IF pool_memory = NULL
          THEN [st |-> memory_free_ptr(a1.st, pool).st, ret |-> NULL]
          ELSE [st |-> [a2.st EXCEPT
                          !.pool_obj = (pool :> obj) @@ @,
                          !.memory_pools = AddToArray(@, pool),
                          !.memory_pool_count = U32(@ + 1)],
                ret |-> pool]

\* mempool_destroy(pool): the state after the call and the error code
\* returned.  pool->base_address is read from the structure pool points to,
\* whether or not a slot held the pool.
mempool_destroy(st, pool) ==
  IF st.hung THEN [st |-> st, err |-> "HANG"]
  ELSE IF pool = NULL THEN [st |-> st, err |-> "ERR_INVALID_ARG"]
  ELSE LET st1 == [st EXCEPT !.memory_pools = RemoveFromArray(@, pool)]
           f1 == memory_free_ptr(st1, st1.pool_obj[pool].base_address)
           f2 == memory_free_ptr(f1.st, pool)
       IN IF f2.st.hung
          THEN [st |-> f2.st, err |-> "HANG"]
          ELSE [st |-> [f2.st EXCEPT !.memory_pool_count = U32(@ - 1)],
                err |-> "ERR_SUCCESS"]

\* mempool_find
mempool_find(st, name) ==
  LET hit == {i \in Slots : /\ st.memory_pools[i] # NULL
                            /\ st.pool_obj[st.memory_pools[i]].name = name}
  IN IF hit = {} THEN NULL
     ELSE st.memory_pools[CHOOSE i \in hit : \A j \in hit : i <= j]

\* mempool_find_by_id
mempool_find_by_id(st, id) ==
  LET hit == {i \in Slots : /\ st.memory_pools[i] # NULL
                            /\ st.pool_obj[st.memory_pools[i]].id = id}
  IN IF hit = {} THEN NULL
     ELSE st.memory_pools[CHOOSE i \in hit : \A j \in hit : i <= j]

\* mempool_alloc(pool, size): the state after the call and the pointer
\* returned; pool->used + size is a u32 sum
mempool_alloc(st, pool, size) ==
  IF pool = NULL \/ size = 0 THEN [st |-> st, ret |-> NULL]
  ELSE LET p == st.pool_obj[pool]
       IN IF U32(p.used + size) > p.size
          THEN [st |-> st, ret |-> NULL]
          ELSE LET used == U32(p.used + size)
                   q == [p EXCEPT !.used = used,
                                  !.allocations = U32(@ + 1),
                                  !.peak_usage = IF used > @ THEN used ELSE @]
               IN [st |-> [st EXCEPT !.pool_obj[pool] = q],
                   ret |-> U32(p.base_address + p.used)]

\* mempool_free(pool, ptr): the state after the call and the error code
\* returned
mempool_free(st, pool, ptr) ==
  IF pool = NULL \/ ptr = NULL THEN [st |-> st, err |-> "ERR_INVALID_ARG"]
  ELSE [st |-> [st EXCEPT !.pool_obj[pool].frees = U32(@ + 1)],
        err |-> "ERR_SUCCESS"]

(***************************************************************************)
(* memory_init.                                                            *)
(***************************************************************************)
DefaultName == <<"d", "e", "f", "a", "u", "l", "t">>

\* memory_init up to the creation of the default pool
InitHeap ==
  [memory_total |-> 16 * MB,
   memory_used |-> 0,
   memory_free |-> 16 * MB,
   memory_block_count |-> 1,
   memory_list |-> heap_start,
   memory_pools |-> [i \in Slots |-> NULL],
   memory_pool_count |-> 0,
   hdr |-> (heap_start :> [size |-> heap_size - SizeofMemoryBlock,
                           free |-> TRUE, next |-> NULL, prev |-> NULL]),
   pool_obj |-> [p \in {} |-> NULL],
   hung |-> FALSE,
   junk |-> Blank]

\* the state memory_init returns in (it panics when the default pool is not
\* created; with the sizes above it is)
memory_init == mempool_create(InitHeap, DefaultName, "MEM_POOL_DEFAULT", 1 * MB)

(***************************************************************************)
(* The callers.  Requests are drawn from small sets; among the sizes are    *)
(* those whose rounding wraps to 0 (Mod - 1), whose sum with the header     *)
(* size wraps to 0 (Mod - 16) and whose sum with the header size wraps to 8 *)
(* (Mod - 8).                                                               *)
(***************************************************************************)
AllocSizes == {0, 1, 100, 4 * MB, Mod - 16, Mod - 8, Mod - 1}
PoolSizes == {0, 8, 4 * MB}
PoolNames == {<<"n", "e", "t">>}
PoolTypes == {"MEM_POOL_SMALL"}

\* what memory that holds no header may hold where a call reads a header
JunkHeaders == [size : {0, 24}, free : BOOLEAN, next : {NULL}, prev : {NULL}]

\* the state a call starts from when such memory holds g
Reading(st, g) == [st EXCEPT !.junk = g]

\* The heap memory a call starts from.  Only the headers on the chain, the
\* headers of allocated blocks and the MemoryPool structures lying in
\* allocated blocks are kept from one call to the next: free memory and
\* payload handed out may be overwritten by anyone in between.  The one
\* exception is the call that passes again the pointer that the call before
\* it released: it finds the memory as that call left it (Again below).
Forget(st) ==
  LET keep == ChainSet(st) \cup {a \in DOMAIN st.hdr : ~st.hdr[a].free}
  IN [st EXCEPT
        !.hdr = [a \in keep |-> st.hdr[a]],
        !.pool_obj = [p \in {q \in DOMAIN st.pool_obj :
                               /\ U32(q - SizeofMemoryBlock) \in DOMAIN st.hdr
                               /\ ~st.hdr[U32(q - SizeofMemoryBlock)].free}
                      |-> st.pool_obj[p]]]

\* what the last call was and what it returned: size and ptr are its
\* arguments, ret the pointer and err the error code it returned ("HANG":
\* the call never returned)
Call(op, size, ptr, ret, err) ==
  [op |-> op, size |-> size, ptr |-> ptr, ret |-> ret, err |-> err]

\* the end-to-end scenario of the heap: step counts the calls of the script
\* made so far since memory_init, 0 = none yet, -1 = the run left the script
ScnOff == [step |-> -1, ptr |-> NULL, free0 |-> 0, count0 |-> 0]

ScnNext(call) ==
  IF scn.step = 0 /\ call.op = "memory_alloc" /\ call.size = 100
  THEN [step |-> 1, ptr |-> call.ret,
        free0 |-> memory_free, count0 |-> memory_block_count]
  ELSE IF scn.step = 1 /\ call.op = "memory_alloc" /\ call.size = 4 * MB
  THEN [scn EXCEPT !.step = 2]
  ELSE IF scn.step = 2 /\ call.op = "memory_free" /\ call.ptr = scn.ptr
  THEN [scn EXCEPT !.step = 3]
  ELSE ScnOff

\* the execution contexts, and a context that is in no call
Contexts == {1, 2}

Idle == [pc |-> "idle", size |-> 0, current |-> NULL, new_block |-> NULL,
         ret |-> NULL]

Init ==
  /\ memory_total = memory_init.st.memory_total
  /\ memory_used = memory_init.st.memory_used
  /\ memory_free = memory_init.st.memory_free
  /\ memory_block_count = memory_init.st.memory_block_count
  /\ memory_list = memory_init.st.memory_list
  /\ memory_pools = memory_init.st.memory_pools
  /\ memory_pool_count = memory_init.st.memory_pool_count
  /\ hdr = memory_init.st.hdr
  /\ pool_obj = memory_init.st.pool_obj
  /\ hung = memory_init.st.hung
  /\ live = {}
  /\ last = Call("memory_init", 0, NULL, NULL, "ERR_SUCCESS")
  /\ issued = {memory_init.st.pool_obj[memory_init.ret].id}
  /\ scn = [step |-> 0, ptr |-> NULL, free0 |-> 0, count0 |-> 0]
  /\ wild = 0
  /\ ctx = [c \in Contexts |-> Idle]

\* two headers of the heap overlap: what a call finds there depends on what
\* the holders of the payloads write, so only MaxWild calls are followed
Overlapped == \E a \in DOMAIN hdr : U32(a + 8) \in DOMAIN hdr

\* a call is made: it is counted if it is made in such a heap
Followed ==
  /\ Overlapped => wild < MaxWild
  /\ wild' = IF Overlapped THEN wild + 1 ELSE wild

\* a caller calls memory_alloc(size) and keeps the pointer
MemoryAlloc(size) ==
  /\ ~hung
  /\ Followed
  /\ Cardinality(live) < MaxLive
  /\ memory_block_count < MaxBlocks
  /\ \E g \in JunkHeaders : \E r \in {memory_alloc(Reading(Forget(State), g), size)} :
     LET call == Call("memory_alloc", size, NULL, r.ret,
                      IF r.st.hung THEN "HANG" ELSE "ERR_SUCCESS")
     IN /\ Install(r.st)
        /\ live' = IF r.ret # NULL THEN live \cup {r.ret} ELSE live
        /\ last' = call
        /\ scn' = ScnNext(call)
  /\ UNCHANGED <<issued, ctx>>

\* the pointer or pool the last call released, if it released one
Released ==
  IF last.op \in {"memory_free", "mempool_destroy"} /\ last.err = "ERR_SUCCESS"
  THEN {last.ptr}
  ELSE {}

\* the state a call that is passed ptr starts from
Again(ptr) == IF ptr \in Released THEN State ELSE Forget(State)

\* the pointers a caller may pass to memory_free: NULL, a pointer it holds,
\* and once more the pointer it has just released
Releasable == {NULL} \cup live \cup (IF last.op = "memory_free" THEN Released ELSE {})

\* a caller calls memory_free(ptr)
MemoryFree(ptr) ==
  /\ ~hung
  /\ Followed
  /\ \E g \in JunkHeaders : \E r \in {memory_free_ptr(Reading(Again(ptr), g), ptr)} :
     LET call == Call("memory_free", 0, ptr, NULL, r.err)
     IN /\ Install(r.st)
        /\ live' = IF r.err = "ERR_SUCCESS" THEN live \ {ptr} ELSE live
        /\ last' = call
        /\ scn' = ScnNext(call)
  /\ UNCHANGED <<issued, ctx>>

\* a caller calls mempool_create(name, type, size)
MempoolCreate(name, type, size) ==
  /\ ~hung
  /\ Followed
  /\ Cardinality(DOMAIN Forget(State).pool_obj) <= MAX_MEMPOOLS
  /\ memory_block_count < MaxBlocks \/ memory_pool_count >= MAX_MEMPOOLS
  /\ \E g \in JunkHeaders :
     \E r \in {mempool_create(Reading(Forget(State), g), name, type, size)} :
     LET call == Call("mempool_create", size, NULL, r.ret,
                      IF r.st.hung THEN "HANG" ELSE "ERR_SUCCESS")
     IN /\ Install(r.st)
        /\ last' = call
        /\ scn' = ScnNext(call)
        /\ issued' = IF r.ret # NULL
                     THEN issued \cup {r.st.pool_obj[r.ret].id}
                     ELSE issued
  /\ UNCHANGED <<live, ctx>>

\* the handles a caller may pass to mempool_destroy: NULL, every pool whose
\* structure lies in an allocated block, and once more the pool it has just
\* destroyed
Handles ==
  {NULL} \cup DOMAIN Forget(State).pool_obj
         \cup (IF last.op = "mempool_destroy" THEN Released ELSE {})

\* a caller calls mempool_destroy(pool)
MempoolDestroy(pool) ==
  /\ ~hung
  /\ Followed
  /\ memory_pool_count <= MAX_MEMPOOLS
  /\ \E g \in JunkHeaders : \E r \in {mempool_destroy(Reading(Again(pool), g), pool)} :
     LET call == Call("mempool_destroy", 0, pool, NULL, r.err)
     IN /\ Install(r.st)
        /\ last' = call
        /\ scn' = ScnNext(call)
  /\ UNCHANGED <<live, issued, ctx>>

Next ==
  \/ \E size \in AllocSizes : MemoryAlloc(size)
  \/ \E ptr \in Releasable : MemoryFree(ptr)
  \/ \E name \in PoolNames, type \in PoolTypes, size \in PoolSizes :
       MempoolCreate(name, type, size)
  \/ \E pool \in Handles : MempoolDestroy(pool)

Spec == Init /\ [][Next]_vars

(***************************************************************************)
(* memory_coalesce on its own: a pass, and a second pass, over any         *)
(* well-formed block list of at most MaxRun blocks.                        *)
(***************************************************************************)
\* how many blocks the lists given to memory_coalesce hold at most
MaxRun == 4

\* the payload sizes of those blocks
RunSizes == {0, 8, 24}

BlockShapes == [size : RunSizes, free : BOOLEAN]

RECURSIVE AddressOf(_, _)
\* where the i-th block of a list laid out from heap_start begins
AddressOf(shape, i) ==
  IF i = 1 THEN heap_start
  ELSE AddressOf(shape, i - 1) + SizeofMemoryBlock + shape[i - 1].size

\* the headers of the list whose blocks have the given sizes and states
ListOf(shape) ==
  [a \in {AddressOf(shape, i) : i \in 1..Len(shape)} |->
     LET i == CHOOSE k \in 1..Len(shape) : AddressOf(shape, k) = a
     IN [size |-> shape[i].size,
         free |-> shape[i].free,
         next |-> IF i = Len(shape) THEN NULL ELSE AddressOf(shape, i + 1),
         prev |-> IF i = 1 THEN NULL ELSE AddressOf(shape, i - 1)]]

InitCoalesce ==
  \E n \in 1..MaxRun : \E shape \in [1..n -> BlockShapes] :
    /\ hdr = ListOf(shape)
    /\ memory_block_count = n
    /\ memory_list = heap_start
    /\ memory_total = 16 * MB
    /\ memory_used = 0
    /\ memory_free = 16 * MB
    /\ memory_pools = [i \in Slots |-> NULL]
    /\ memory_pool_count = 0
    /\ pool_obj = [p \in {} |-> NULL]
    /\ hung = FALSE
    /\ live = {}
    /\ last = Call("list", 0, NULL, NULL, "ERR_SUCCESS")
    /\ issued = {}
    /\ scn = [step |-> 0, ptr |-> NULL, free0 |-> 0, count0 |-> n]
    /\ wild = 0
    /\ ctx = [c \in Contexts |-> Idle]

\* one call of memory_coalesce; scn.step counts the passes made
CoalescePass ==
  /\ scn.step < 2
  /\ \E st \in {memory_coalesce(State)} : Install(st)
  /\ last' = Call("memory_coalesce", 0, NULL, NULL, "ERR_SUCCESS")
  /\ scn' = [scn EXCEPT !.step = @ + 1]
  /\ UNCHANGED <<live, issued, wild, ctx>>

NextCoalesce == CoalescePass

SpecCoalesce == InitCoalesce /\ [][NextCoalesce]_vars

(***************************************************************************)
(* The pools on their own: mempool_alloc and mempool_free on the pools of  *)
(* a registry.  The two functions read and write only the MemoryPool       *)
(* structure they are passed, which no heap function reads but for         *)
(* base_address, so they are explored apart from the heap calls.           *)
(***************************************************************************)
\* how many times a caller allocates from, and releases to, one pool
MaxPoolCalls == 2

\* the sizes a second pool is created with, if there is one
SecondPoolSizes == {8, 24}

\* the sizes asked of mempool_alloc
PoolAllocSizes == {0, 1, 8, 1 * MB - 4, Mod - 1}

\* the registries the pool calls start from: memory_init's, and memory_init's
\* with a second pool created
Registries ==
  {memory_init.st}
    \cup {mempool_create(memory_init.st, name, type, size).st :
            name \in PoolNames, type \in PoolTypes, size \in SecondPoolSizes}

InitPool ==
  \E st \in Registries :
    /\ memory_total = st.memory_total
    /\ memory_used = st.memory_used
    /\ memory_free = st.memory_free
    /\ memory_block_count = st.memory_block_count
    /\ memory_list = st.memory_list
    /\ memory_pools = st.memory_pools
    /\ memory_pool_count = st.memory_pool_count
    /\ hdr = st.hdr
    /\ pool_obj = st.pool_obj
    /\ hung = st.hung
    /\ live = {}
    /\ last = Call("memory_init", 0, NULL, NULL, "ERR_SUCCESS")
    /\ issued = {st.pool_obj[q].id : q \in DOMAIN st.pool_obj}
    /\ scn = ScnOff
    /\ wild = 0
    /\ ctx = [c \in Contexts |-> Idle]

\* the pool handles a caller passes: NULL and the pools in the slots
PoolHandles == {NULL} \cup ({memory_pools[i] : i \in Slots} \ {NULL})

\* a caller calls mempool_alloc(pool, size)
MempoolAlloc(pool, size) ==
  /\ pool # NULL => pool_obj[pool].allocations < MaxPoolCalls
  /\ \E r \in {mempool_alloc(State, pool, size)} :
       /\ Install(r.st)
       /\ last' = Call("mempool_alloc", size, pool, r.ret, "ERR_SUCCESS")
  /\ UNCHANGED <<live, issued, scn, wild, ctx>>

\* the pointers a caller passes to mempool_free: NULL, the start of the
\* pool's memory, and an address that no pool has handed out
PoolPointers(pool) ==
  {NULL, memory_list} \cup (IF pool = NULL THEN {} ELSE {pool_obj[pool].base_address})

\* a caller calls mempool_free(pool, ptr)
MempoolFree(pool, ptr) ==
  /\ pool # NULL => pool_obj[pool].frees < MaxPoolCalls
  /\ \E r \in {mempool_free(State, pool, ptr)} :
       /\ Install(r.st)
       /\ last' = Call("mempool_free", 0, pool, ptr, r.err)
  /\ UNCHANGED <<live, issued, scn, wild, ctx>>

NextPool ==
  \/ \E pool \in PoolHandles, size \in PoolAllocSizes : MempoolAlloc(pool, size)
  \/ \E pool \in PoolHandles : \E ptr \in PoolPointers(pool) : MempoolFree(pool, ptr)

SpecPool == InitPool /\ [][NextPool]_vars

(***************************************************************************)
(* The registry on its own: mempool_create, and mempool_destroy of the     *)
(* pools the slots hold, with no other caller of the heap.                 *)
(***************************************************************************)
\* the sizes the pools are created with: none, some, more than the heap
\* holds, and sizes whose rounding or whose sum with the header wraps
RegistrySizes == {0, 8, 24, 4 * MB, Mod - 16, Mod - 8, Mod - 1}

RegistryNames == {<<"n", "e", "t">>, <<"f", "s">>}

RegistryCreate ==
  \E name \in RegistryNames, type \in PoolTypes, size \in RegistrySizes :
    MempoolCreate(name, type, size)

\* the pools destroyed are those in the slots whose structure still lies in
\* an allocated block
RegistryDestroy ==
  \E pool \in ({memory_pools[i] : i \in Slots} \ {NULL})
                 \cap DOMAIN Forget(State).pool_obj : MempoolDestroy(pool)

NextRegistry == RegistryCreate \/ RegistryDestroy

SpecRegistry == Init /\ [][NextRegistry]_vars

(***************************************************************************)
(* memory_alloc in two execution contexts at once, with nothing to keep    *)
(* one out while the other is inside: each context runs the function one   *)
(* statement at a time on the shared heap.  pc is the line of src/memory.c *)
(* the context is about to execute; size, current and new_block are the    *)
(* function's locals.                                                      *)
(***************************************************************************)
\* the sizes asked for
RaceSizes == {0, 1, 100}

\* the context moves to line l
Goto(c, l) == ctx' = [ctx EXCEPT ![c].pc = l]

\* a step that changes nothing but the heap memory and the context
Writes(h) ==
  /\ hdr' = h
  /\ UNCHANGED <<memory_total, memory_used, memory_free, memory_block_count,
                 memory_list, memory_pools, memory_pool_count, pool_obj, hung,
                 live, last, issued, scn, wild>>

\* lines 65-70: the call, the test of size, the rounding, current = memory_list
Enter(c, n) ==
  /\ ctx[c].pc = "idle"
  /\ ctx' = [ctx EXCEPT ![c] =
               IF n = 0 THEN [Idle EXCEPT !.pc = "done"]
               ELSE [Idle EXCEPT !.pc = "L71", !.size = AlignUp(n),
                                 !.current = memory_list]]
  /\ Writes(hdr)

\* line 71: while (current); line 97: return NULL
L71(c) ==
  /\ ctx[c].pc = "L71"
  /\ Goto(c, IF ctx[c].current = NULL THEN "done" ELSE "L72")
  /\ Writes(hdr)

\* line 72: if (current->free && current->size >= size + sizeof(MemoryBlock))
L72(c) ==
  /\ ctx[c].pc = "L72"
  /\ \E g \in JunkHeaders :
       LET b == Load(hdr, g, ctx[c].current)
       IN Goto(c, IF b.free /\ b.size >= U32(ctx[c].size + SizeofMemoryBlock)
                  THEN "L74" ELSE "L94")
  /\ Writes(hdr)

\* line 94: current = current->next
L94(c) ==
  /\ ctx[c].pc = "L94"
  /\ \E g \in JunkHeaders :
       ctx' = [ctx EXCEPT ![c].pc = "L71",
                          ![c].current = Load(hdr, g, ctx[c].current).next]
  /\ Writes(hdr)

\* line 74: new_block = current + sizeof(MemoryBlock) + size
L74(c) ==
  /\ ctx[c].pc = "L74"
  /\ ctx' = [ctx EXCEPT ![c].pc = "L75",
                        ![c].new_block = NewBlock(ctx[c].current, ctx[c].size)]
  /\ Writes(hdr)

\* line 75: new_block->size = current->size - size - sizeof(MemoryBlock)
L75(c) ==
  /\ ctx[c].pc = "L75"
  /\ Goto(c, "L76")
  /\ \E g \in JunkHeaders :
       Writes(Line75(hdr, g, ctx[c].current, ctx[c].new_block, ctx[c].size))

\* line 76: new_block->free = true
L76(c) ==
  /\ ctx[c].pc = "L76"
  /\ Goto(c, "L77")
  /\ \E g \in JunkHeaders : Writes(Line76(hdr, g, ctx[c].new_block))

\* line 77: new_block->next = current->next
L77(c) ==
  /\ ctx[c].pc = "L77"
  /\ Goto(c, "L78")
  /\ \E g \in JunkHeaders :
       Writes(Line77(hdr, g, ctx[c].current, ctx[c].new_block))

\* line 78: new_block->prev = current
L78(c) ==
  /\ ctx[c].pc = "L78"
  /\ Goto(c, "L80")
  /\ \E g \in JunkHeaders :
       Writes(Line78(hdr, g, ctx[c].current, ctx[c].new_block))

\* lines 80-82: if (current->next) current->next->prev = new_block
L80(c) ==
  /\ ctx[c].pc = "L80"
  /\ Goto(c, "L84")
  /\ \E g \in JunkHeaders :
       Writes(Line80(hdr, g, ctx[c].current, ctx[c].new_block))

\* line 84: current->size = size
L84(c) ==
  /\ ctx[c].pc = "L84"
  /\ Goto(c, "L85")
  /\ \E g \in JunkHeaders :
       Writes(Line84(hdr, g, ctx[c].current, ctx[c].size))

\* line 85: current->free = false
L85(c) ==
  /\ ctx[c].pc = "L85"
  /\ Goto(c, "L86")
  /\ \E g \in JunkHeaders : Writes(Line85(hdr, g, ctx[c].current))

\* line 86: current->next = new_block
L86(c) ==
  /\ ctx[c].pc = "L86"
  /\ Goto(c, "L88")
  /\ \E g \in JunkHeaders :
       Writes(Line86(hdr, g, ctx[c].current, ctx[c].new_block))

\* lines 88-90: the three counters
L88(c) ==
  /\ ctx[c].pc = "L88"
  /\ Goto(c, "L92")
  /\ memory_used' = U32(memory_used + U32(ctx[c].size + SizeofMemoryBlock))
  /\ memory_free' = U32(memory_free - U32(ctx[c].size + SizeofMemoryBlock))
  /\ memory_block_count' = U32(memory_block_count + 1)
  /\ UNCHANGED <<memory_total, memory_list, memory_pools, memory_pool_count,
                 hdr, pool_obj, hung, live, last, issued, scn, wild>>

\* line 92: return current + sizeof(MemoryBlock)
L92(c) ==
  /\ ctx[c].pc = "L92"
  /\ ctx' = [ctx EXCEPT ![c].pc = "done",
                        ![c].ret = U32(ctx[c].current + SizeofMemoryBlock)]
  /\ Writes(hdr)

NextRace ==
  \E c \in Contexts :
    \/ \E n \in RaceSizes : Enter(c, n)
    \/ L71(c) \/ L72(c) \/ L94(c) \/ L74(c) \/ L75(c) \/ L76(c) \/ L77(c)
    \/ L78(c) \/ L80(c) \/ L84(c) \/ L85(c) \/ L86(c) \/ L88(c) \/ L92(c)

SpecRace == Init /\ [][NextRace]_vars

(***************************************************************************)
(* Properties.                                                             *)
(***************************************************************************)
SeqSet(c) == {c[i] : i \in 1..Len(c)}

RECURSIVE PayloadSum(_, _, _, _)
\* the sum of the payload sizes of blocks i..j of chain c
PayloadSum(h, c, i, j) ==
  IF i > j THEN 0 ELSE h[c[i]].size + PayloadSum(h, c, i + 1, j)

\* the bytes the blocks of the list cover, headers included
BlockBytes(st) ==
  PayloadSum(st.hdr, Chain(st), 1, Len(Chain(st)))
    + Len(Chain(st)) * SizeofMemoryBlock

\* the list is one chain that starts at the arena base, tiles an arena of
\* the given size in ascending address order and has consistent links
Tiles(st, bytes) ==
  LET h == st.hdr
      c == Chain(st)
      n == Len(c)
  IN /\ n >= 1
     /\ c[1] = heap_start
     /\ h[c[1]].prev = NULL
     /\ \A i \in 1..(n - 1) :
          /\ h[c[i]].next = c[i + 1]
          /\ c[i + 1] = c[i] + SizeofMemoryBlock + h[c[i]].size
          /\ h[c[i + 1]].prev = c[i]
     /\ h[c[n]].next = NULL
     /\ c[n] + SizeofMemoryBlock + h[c[n]].size = heap_start + bytes

\* the payload of the block at a, as a set of addresses
Payload(st, a) ==
  (a + SizeofMemoryBlock)..(a + SizeofMemoryBlock + st.hdr[a].size - 1)

\* the payloads of allocated blocks are pairwise disjoint and inside the arena
PayloadsDisjoint(st) ==
  LET used == {a \in ChainSet(st) : ~st.hdr[a].free}
  IN /\ \A a \in used :
          Payload(st, a) \subseteq heap_start..(heap_start + heap_size - 1)
     /\ \A a, b \in used : a # b => Payload(st, a) \cap Payload(st, b) = {}

\* the counters of the heap
Counters(st) == <<st.memory_used, st.memory_free, st.memory_block_count>>

\* C1: after every call that returned, the sizes of the blocks of the list
\* plus one header each add up to the arena size.
C1_Conservation == ~hung => BlockBytes(State) = heap_size

\* C2: after every call that returned, the block list is one chain from the
\* arena base that tiles the arena with consistent links, and the payloads of
\* allocated blocks are disjoint and inside the arena.
C2_Tiling == ~hung => Tiles(State, heap_size) /\ PayloadsDisjoint(State)

\* C3: a memory_alloc(n) that returned a pointer designates a block of
\* payload size >= n, at an offset from the arena base that is a multiple
\* of 8.
C3_AllocSize ==
  (last.op = "memory_alloc" /\ last.ret # NULL) =>
     /\ hdr[U32(last.ret - SizeofMemoryBlock)].size >= last.size
     /\ (last.ret - SizeofMemoryBlock - heap_start) % 8 = 0

\* n rounded up to a multiple of 8, as a number
RoundUp8(n) == ((n + 7) \div 8) * 8

\* the free blocks of the list that can take a request of n bytes and the
\* header of the remainder
Fits(st, n) ==
  {a \in ChainSet(st) :
     st.hdr[a].free /\ st.hdr[a].size >= RoundUp8(n) + SizeofMemoryBlock}

\* C4: memory_alloc(n) allocates the lowest free block of payload size
\* >= round8(n) + header size, returns null exactly when n = 0 or there is
\* none, and a null result leaves the block list and the counters unchanged.
C4_FirstFit ==
  [][last'.op = "memory_alloc" =>
       LET n == last'.size
           fits == Fits(State, n)
           block == U32(last'.ret - SizeofMemoryBlock)
       IN /\ last'.err = "ERR_SUCCESS"
          /\ (last'.ret = NULL) <=> (n = 0 \/ fits = {})
          /\ last'.ret # NULL =>
               /\ block \in fits
               /\ \A a \in fits : block <= a
               /\ ~hdr'[block].free
          /\ last'.ret = NULL =>
               /\ Blocks(State)' = Blocks(State)
               /\ Counters(State)' = Counters(State)]_vars

\* C5: memory_free of a pointer the caller holds returns success and leaves
\* the block free; memory_free of the same pointer right after returns the
\* double-free error and changes neither the block list nor the counters.
C5_DoubleFree ==
  [][last'.op = "memory_free" =>
       /\ last'.ptr \in live =>
            /\ last'.err = "ERR_SUCCESS"
            /\ hdr'[U32(last'.ptr - SizeofMemoryBlock)].free
       /\ (last.op = "memory_free" /\ last.err = "ERR_SUCCESS"
             /\ last'.ptr = last.ptr) =>
            /\ last'.err = "ERR_GENERIC"
            /\ hdr'[U32(last'.ptr - SizeofMemoryBlock)].free
            /\ Blocks(State)' = Blocks(State)
            /\ Counters(State)' = Counters(State)]_vars

\* the indices of chain c at which a maximal run of free blocks starts
RunStarts(h, c) ==
  {i \in 1..Len(c) : h[c[i]].free /\ (i = 1 \/ ~h[c[i - 1]].free)}

RECURSIVE RunEnd(_, _, _)
\* the index at which the run of free blocks through index i ends
RunEnd(h, c, i) ==
  IF i < Len(c) /\ h[c[i + 1]].free THEN RunEnd(h, c, i + 1) ELSE i

\* C6: one pass of memory_coalesce over a well-formed list turns every
\* maximal run of K free blocks into one free block of the K payload sizes
\* plus K - 1 headers, takes K - 1 off block_count for each run, keeps every
\* allocated block with its size and state, and a second pass changes
\* nothing.
C6_CoalescePass ==
  [][/\ (scn.step = 0 /\ scn'.step = 1) =>
          LET h == hdr
              c == Chain(State)
              after == SeqSet(Chain(State)')
              starts == RunStarts(h, c)
              nfree == Cardinality({i \in 1..Len(c) : h[c[i]].free})
          IN /\ ~hung'
             /\ \A i \in starts :
                  /\ c[i] \in after
                  /\ hdr'[c[i]].free
                  /\ hdr'[c[i]].size =
                       PayloadSum(h, c, i, RunEnd(h, c, i))
                         + (RunEnd(h, c, i) - i) * SizeofMemoryBlock
                  /\ \A k \in (i + 1)..RunEnd(h, c, i) : c[k] \notin after
             /\ \A i \in 1..Len(c) :
                  ~h[c[i]].free =>
                     /\ c[i] \in after
                     /\ ~hdr'[c[i]].free
                     /\ hdr'[c[i]].size = h[c[i]].size
             /\ after \subseteq SeqSet(c)
             /\ memory_block_count' =
                  memory_block_count - (nfree - Cardinality(starts))
             /\ Tiles(State, BlockBytes(State))'
     /\ (scn.step = 1 /\ scn'.step = 2) =>
          /\ hdr' = hdr
          /\ memory_block_count' = memory_block_count]_vars

\* C6 witness: a pass has merged a run of at least three free blocks (two
\* headers were left behind inside one free block) in a list that also holds
\* an allocated block.
C6_Witness ==
  /\ scn.step = 1
  /\ \E a \in ChainSet(State) :
       /\ hdr[a].free
       /\ Cardinality({b \in DOMAIN hdr \ ChainSet(State) :
                         a < b /\ b < a + SizeofMemoryBlock + hdr[a].size}) >= 2
  /\ \E a \in ChainSet(State) : ~hdr[a].free

\* the end-to-end scenario but for the block count
ScenarioSteps ==
  /\ scn.step >= 1 =>
       /\ scn.ptr # NULL
       /\ (scn.ptr - SizeofMemoryBlock - heap_start) % 8 = 0
  /\ scn.step = 2 => last.ret = NULL
  /\ scn.step = 3 =>
       /\ last.err = "ERR_SUCCESS"
       /\ memory_free = scn.free0

\* C7 as stated: memory_alloc(100) returns an aligned pointer, then
\* memory_alloc(4 MB) returns null, then memory_free of the pointer returns
\* success, after which block_count is 1 and the free-bytes counter has its
\* value from before the allocation.
C7_ScenarioAsStated ==
  /\ ScenarioSteps
  /\ scn.step = 3 => memory_block_count = 1

\* C7 amended: as stated, except that block_count is back to 3, its value
\* before the allocation: memory_init has created the default pool, whose two
\* blocks precede the free block.
C7_Scenario ==
  /\ ScenarioSteps
  /\ scn.step >= 1 => scn.count0 = 3
  /\ scn.step = 3 => memory_block_count = scn.count0

\* C7 witness: the three calls of the scenario have been made.
C7_Witness == scn.step = 3

\* the pools in the slots of the registry
LivePools == {memory_pools[i] : i \in Slots} \ {NULL}

\* C8: pools in two different slots have different ids.
C8_UniqueIds ==
  ~hung =>
    \A i, j \in Slots :
      (i # j /\ memory_pools[i] # NULL /\ memory_pools[j] # NULL) =>
         pool_obj[memory_pools[i]].id # pool_obj[memory_pools[j]].id

\* C9: a mempool_create that returns a pool gives it an id greater than every
\* id given by an earlier mempool_create.
C9_IncreasingIds ==
  [][(last'.op = "mempool_create" /\ last'.ret # NULL) =>
        \A id \in issued : pool_obj'[last'.ret].id > id]_vars

\* C10: mempool_destroy of NULL or of a pool that no slot holds returns the
\* invalid-argument error and changes neither pool_count, nor a slot, nor the
\* block list, nor the counters.
C10_DestroyUnknown ==
  [][(last'.op = "mempool_destroy" /\ last'.ptr \notin LivePools) =>
        /\ last'.err = "ERR_INVALID_ARG"
        /\ memory_pool_count' = memory_pool_count
        /\ memory_pools' = memory_pools
        /\ Blocks(State)' = Blocks(State)
        /\ Counters(State)' = Counters(State)]_vars

\* C11: a mempool_create called with pool_count = MAX_MEMPOOLS returns no
\* pool and leaves pool_count, every slot, the block list and the counters as
\* they were.
C11_CreateAtCapacity ==
  [][(last'.op = "mempool_create" /\ memory_pool_count = MAX_MEMPOOLS) =>
        /\ last'.ret = NULL
        /\ last'.err = "ERR_SUCCESS"
        /\ memory_pool_count' = memory_pool_count
        /\ memory_pools' = memory_pools
        /\ Blocks(State)' = Blocks(State)
        /\ Counters(State)' = Counters(State)]_vars

\* C11 witness: mempool_create has returned no pool with every slot taken
\* and pool_count at MAX_MEMPOOLS, in a heap that had room for the pool.
C11_Witness ==
  /\ last.op = "mempool_create"
  /\ last.ret = NULL
  /\ last.size = 8
  /\ memory_pool_count = MAX_MEMPOOLS
  /\ \A i \in Slots : memory_pools[i] # NULL
  /\ Fits(State, SizeofMemoryPool + SizeofMemoryBlock + 8) # {}

\* C12: a mempool_create that returns no pool because memory_alloc returned
\* NULL for the pool structure or for the pool memory leaves the block list,
\* the counters, pool_count and every slot as they were.
C12_CreateFailure ==
  [][(/\ last'.op = "mempool_create"
      /\ last'.ret = NULL
      /\ last'.err = "ERR_SUCCESS"
      /\ memory_pool_count < MAX_MEMPOOLS) =>
        /\ Blocks(State)' = Blocks(State)
        /\ Counters(State)' = Counters(State)
        /\ memory_pool_count' = memory_pool_count
        /\ memory_pools' = memory_pools]_vars

\* C13: a mempool_alloc(pool, size) that returns a pointer returns
\* base_address + used and adds size to used; one with used + size >
\* pool.size returns NULL and changes nothing; used stays <= pool.size and
\* the region returned lies inside the pool's memory.
C13_BumpInsidePool ==
  [][(last'.op = "mempool_alloc" /\ last'.ptr # NULL) =>
        LET pool == last'.ptr
            p == pool_obj[pool]
            size == last'.size
        IN /\ last'.ret # NULL =>
                /\ last'.ret = p.base_address + p.used
                /\ pool_obj'[pool].used = p.used + size
                /\ last'.ret + size <= p.base_address + p.size
           /\ p.used + size > p.size =>
                /\ last'.ret = NULL
                /\ pool_obj' = pool_obj
           /\ pool_obj'[pool].used <= p.size]_vars

\* C14: over mempool_alloc and mempool_free calls no pool's used goes down
\* and peak_usage >= used; mempool_free changes nothing but the frees
\* counter of the pool it is passed.
C14_UsedNeverDecreases ==
  [][/\ \A q \in DOMAIN pool_obj :
          /\ pool_obj'[q].used >= pool_obj[q].used
          /\ pool_obj'[q].peak_usage >= pool_obj'[q].used
     /\ last'.op = "mempool_free" =>
          /\ hdr' = hdr
          /\ \A q \in DOMAIN pool_obj :
               [pool_obj'[q] EXCEPT !.frees = 0] = [pool_obj[q] EXCEPT !.frees = 0]
          /\ \A q \in DOMAIN pool_obj :
               pool_obj'[q].frees # pool_obj[q].frees =>
                  /\ q = last'.ptr
                  /\ pool_obj'[q].frees = pool_obj[q].frees + 1]_vars

\* the block at address a is an allocated block of the list
Allocated(st, a) == a \in ChainSet(st) /\ ~st.hdr[a].free

\* a mempool_create followed at once by the mempool_destroy of the pool it
\* returned gives back the block list and the counters of before the create
CreateDestroyRestores(st) ==
  \A name \in PoolNames, type \in PoolTypes, size \in PoolSizes :
    \A c \in {mempool_create(st, name, type, size)} :
      (c.ret # NULL /\ ~c.st.hung) =>
         \A d \in {mempool_destroy(c.st, c.ret)} :
           /\ d.err = "ERR_SUCCESS"
           /\ Blocks(d.st) = Blocks(st)
           /\ Counters(d.st) = Counters(st)

\* C15: mempool_destroy of a pool in a slot returns success, empties that
\* slot and no other, so that neither name nor id finds the pool, takes one
\* off pool_count, leaves neither the pool's memory nor its structure an
\* allocated block, and takes the two blocks' sizes and headers off the used
\* counter; a create followed at once by the destroy restores the block list
\* and the counters.
C15_DestroyLive ==
  /\ [](~hung => CreateDestroyRestores(Forget(State)))
  /\ [][(last'.op = "mempool_destroy" /\ last'.ptr \in LivePools) =>
          LET pool == last'.ptr
              p == pool_obj[pool]
              body == U32(p.base_address - SizeofMemoryBlock)
              meta == U32(pool - SizeofMemoryBlock)
          IN /\ last'.err = "ERR_SUCCESS"
             /\ memory_pools' =
                  [i \in Slots |-> IF memory_pools[i] = pool THEN NULL
                                   ELSE memory_pools[i]]
             /\ mempool_find(State', p.name) # pool
             /\ mempool_find_by_id(State', p.id) # pool
             /\ memory_pool_count' = U32(memory_pool_count - 1)
             /\ ~Allocated(State', body)
             /\ ~Allocated(State', meta)
             /\ memory_used' =
                  U32(memory_used - (hdr[body].size + hdr[meta].size
                                       + 2 * SizeofMemoryBlock))]_vars

\* C16: memory_alloc(0) returns NULL and leaves the block list and the
\* counters as they were, whatever the state of the heap.
C16_AllocZero ==
  [][(last'.op = "memory_alloc" /\ last'.size = 0) =>
        /\ last'.ret = NULL
        /\ last'.err = "ERR_SUCCESS"
        /\ Blocks(State)' = Blocks(State)
        /\ Counters(State)' = Counters(State)
        /\ live' = live]_vars

\* C16 witness: memory_alloc(0) has returned NULL in a heap that holds a raw
\* allocation and a free block that could take a block of no bytes.
C16_Witness ==
  /\ last.op = "memory_alloc"
  /\ last.size = 0
  /\ last.ret = NULL
  /\ live # {}
  /\ Fits(State, 0) # {}

\* the blocks of the list that are free and followed by a free block
FreePairs(st) ==
  {a \in ChainSet(st) :
     /\ st.hdr[a].free
     /\ st.hdr[a].next \in DOMAIN st.hdr
     /\ st.hdr[st.hdr[a].next].free}

\* C18: after every call that returned, no free block of the list is
\* followed by a free block.
C18_NoFreeNeighbours == ~hung => FreePairs(State) = {}

RECURSIVE UsedBytes(_, _, _)
\* size + header summed over the allocated blocks among blocks i.. of chain c
UsedBytes(h, c, i) ==
  IF i > Len(c) THEN 0
  ELSE (IF h[c[i]].free THEN 0 ELSE h[c[i]].size + SizeofMemoryBlock)
         + UsedBytes(h, c, i + 1)

\* C19: after every call that returned, block_count is the number of blocks
\* of the list, the used counter is size + header summed over the allocated
\* blocks, and used + free = total.
C19_CountersMatchList ==
  ~hung =>
    /\ memory_block_count = Len(Chain(State))
    /\ memory_used = UsedBytes(hdr, Chain(State), 1)
    /\ memory_used + memory_free = memory_total

\* C20: over mempool_create calls and mempool_destroy calls on pools in the
\* slots, pool_count is the number of slots taken and at most MAX_MEMPOOLS,
\* no pool is in two slots, a pool that mempool_create has just returned is
\* in a slot, and the structure and the memory of every pool in a slot are
\* allocated blocks of the list.
C20_RegistryConsistent ==
  ~hung =>
    /\ memory_pool_count = Cardinality({i \in Slots : memory_pools[i] # NULL})
    /\ memory_pool_count <= MAX_MEMPOOLS
    /\ \A i, j \in Slots :
         (i # j /\ memory_pools[i] # NULL) => memory_pools[i] # memory_pools[j]
    /\ (last.op = "mempool_create" /\ last.ret # NULL) =>
         Cardinality({i \in Slots : memory_pools[i] = last.ret}) = 1
    /\ \A pool \in LivePools :
         /\ Allocated(State, U32(pool - SizeofMemoryBlock))
         /\ Allocated(State, U32(pool_obj[pool].base_address - SizeofMemoryBlock))

\* the contexts that have returned from memory_alloc with a block
Returned == {c \in Contexts : ctx[c].pc = "done" /\ ctx[c].ret # NULL}

\* interleaved calls: no two contexts are returned the same block
RaceDistinctBlocks ==
  \A c, d \in Returned : c # d => ctx[c].ret # ctx[d].ret

\* interleaved calls: once every context is out of memory_alloc, the list is
\* one chain that tiles the arena and block_count is its length
RaceListIntact ==
  (\A c \in Contexts : ctx[c].pc \in {"idle", "done"}) =>
     /\ Tiles(State, heap_size)
     /\ memory_block_count = Len(Chain(State))

\* C17: calls made one after the other never hand a block to two holders
\* (every pointer held designates an allocated block of the list, and the
\* payloads of allocated blocks are disjoint) and leave the block list one
\* chain that tiles the arena, with block_count its length.
C17_SerializedSafe ==
  ~hung =>
    /\ \A ptr \in live : Allocated(State, U32(ptr - SizeofMemoryBlock))
    /\ memory_block_count = Len(Chain(State))
    /\ Tiles(State, heap_size)
    /\ PayloadsDisjoint(State)

====
